---- MODULE Spec2Model ----
(***************************************************************************)
(* Model of the real-time collaboration WebSocket server                   *)
(* (src/src/websocket.rs) together with the Session Store operations it    *)
(* calls (src/src/models/collaboration.rs).                                *)
(*                                                                         *)
(* One task per connection runs handle_websocket_connection: a select loop *)
(* over inbound frames, the session broadcast receiver and the heartbeat   *)
(* timer.  Handlers that await the database or the hub are split at those  *)
(* awaits, so that the tasks of different connections interleave there.    *)
(***************************************************************************)
EXTENDS Integers, Sequences, FiniteSets, TLC

(***************************************************************************)
(* Bounds of the model.                                                    *)
(***************************************************************************)
NumConns == 2          \* connections accepted by the server
NumUsers == 2          \* users for which the token service issues tokens
NumSessions == 2       \* rows of collaboration_sessions
MaxFrames == 3         \* client frames read by the server, over all connections
MaxJoinFrames == 4     \* the same, when clients only authenticate, join and leave
MaxCleanupFrames == 3  \* client frames read in all, in the cleanup scenario
MaxRelayFrames == 6    \* the same, when clients only authenticate, join and operate
MaxClock == 1          \* readings of the wall clock
MaxRows == 2           \* rows of session_participants
MaxOps == 2            \* rows of session_operations
MaxMsgs == 1           \* rows of session_messages
Capacity == 3          \* events a broadcast channel retains (1000 in the server)
MaxLagFrames == 6      \* client frames read in all, in the slow-receiver scenario
MaxLockFrames == 3     \* client frames read and calls made, in the lock scenario

Conns == 1..NumConns
Users == 1..NumUsers
Sessions == 1..NumSessions
\* Session ids a client may name: 0 is the id of no session.
SessionIds == 0..NumSessions

\* Option<T> is a set with at most one element.
None == {}
Some(x) == {x}
Unwrap(o) == CHOOSE x \in o : TRUE

VARIABLES
    now,                 \* Utc::now()
    sessions,            \* collaboration_sessions: id -> row
    participants,        \* session_participants: sequence of rows, id = index
    operations,          \* session_operations: sequence of rows, in insertion order
    messages,            \* session_messages: sequence of rows
    connections,         \* WsServerState.connections: connection id -> ConnectionState
    session_broadcasts,  \* WsServerState.session_broadcasts: session ids with a channel
    broadcast_receiver,  \* per task: Option<session id> of the channel it subscribes to
    queue,               \* per task: events buffered in its broadcast receiver
    pc,                  \* per task: position in handle_websocket_connection
    local,               \* per task: locals of the handler in progress
    sock,                \* per connection: state of the socket
    wire,                \* Option<the frame last written to a socket, and the connection>
    frames,              \* client frames still to be read
    published            \* events handed to broadcast_to_session, in order

vars == <<now, sessions, participants, operations, messages, connections,
          session_broadcasts, broadcast_receiver, queue, pc, local, sock,
          wire, frames, published>>

(***************************************************************************)
(* Inputs.                                                                 *)
(***************************************************************************)
\* Bearer tokens a client may present: the token issued for user u is u itself,
\* and 0 stands for an expired, forged or malformed token.
Tokens == 0..NumUsers
Passwords == {"good", "bad"}
Roles == {"editor"}
\* Payloads of an Operation frame.
InsertHi ==
    [operation_type |-> "insert", position |-> Some(10), content |-> Some("hi"),
     length |-> None, file_id |-> None]
MoveCursor ==
    [operation_type |-> "cursor", position |-> Some(3), content |-> None,
     length |-> None, file_id |-> None]
OpPayloads == {InsertHi, MoveCursor}
ChatContents == {"hello"}

(***************************************************************************)
(* Identity Verifier and password hashing.                                 *)
(***************************************************************************)
\* A faulty variant of verify_token, used to show what the property about
\* authentication detects: a token that does not verify is taken for user 1's.
verify_token_lenient(token) == IF token \in Users THEN Some(token) ELSE Some(1)

\* JwtService::verify_token: Some(user id) for a valid token, None for Err.
verify_token(token) == IF token \in Users THEN Some(token) ELSE None

bcrypt_hash(password) == <<"bcrypt", password>>
bcrypt_verify(provided, hash) == hash = bcrypt_hash(provided)

(***************************************************************************)
(* Session Store: pure parts of the queries.                               *)
(***************************************************************************)
\* max_participants of the sessions of the model.
SmallCap == 1           \* max_participants of the password-protected sessions
LargeCap == 2           \* max_participants of the open sessions

\* The rows of collaboration_sessions the server starts with: the sessions
\* with an even id are password-protected.
InitialSessions ==
    [s \in Sessions |->
        [is_active |-> TRUE,
         max_participants |-> IF s % 2 = 0 THEN SmallCap ELSE LargeCap,
         password_hash |-> IF s % 2 = 0 THEN Some(bcrypt_hash("good")) ELSE None]]

\* CollaborationSession::find_by_id
find_by_id(session_id) ==
    IF session_id \in DOMAIN sessions THEN Some(sessions[session_id]) ELSE None

\* A faulty variant of find_with_access, used to show what the property about
\* refused joins detects: an ended session is still found.
find_with_access_ended(session_id, user_id, password) ==
    LET found == find_by_id(session_id) IN
    IF found = None THEN None
    ELSE LET session == Unwrap(found) IN
         IF session.password_hash = None THEN found
         ELSE IF password # None
                 /\ bcrypt_verify(Unwrap(password), Unwrap(session.password_hash))
              THEN found
              ELSE None

\* CollaborationSession::find_with_access: Some(session) or None.
find_with_access(session_id, user_id, password) ==
    LET found == find_by_id(session_id) IN
    IF found = None THEN None
    ELSE LET session == Unwrap(found) IN
         IF ~session.is_active THEN None
         ELSE IF session.password_hash # None /\ password # None
              THEN IF ~bcrypt_verify(Unwrap(password), Unwrap(session.password_hash))
                   THEN None
                   ELSE found
              ELSE IF session.password_hash # None /\ password = None
                   THEN None
                   ELSE found

\* SessionParticipant::get_active_participants: ids of the online rows.
get_active_participants(session_id) ==
    { i \in 1..Len(participants) :
        participants[i].session_id = session_id /\ participants[i].is_online }

\* The users the Session Store reports online in a session.
OnlineUsers(session_id) ==
    { participants[i].user_id : i \in get_active_participants(session_id) }

(***************************************************************************)
(* Session Hub.                                                            *)
(***************************************************************************)
\* The tasks whose receiver is subscribed to the channel of session_id.
Subscribers(session_id) ==
    { c \in Conns : broadcast_receiver[c] = Some(session_id) }

\* A faulty variant of broadcast_to_session, used to show what the properties
\* about publication detect: the event reaches no receiver.
broadcast_to_nobody(session_id, message) == queue

\* What a receiver finds in place of the events that the channel overwrote
\* before it read them: RecvError::Lagged with their number.
Lagged(missed) == [type |-> "Lagged", missed |-> missed]

\* The number of events a receiver has missed, and the events it has yet to
\* read, in a buffer of the model.
Missed(buffer) ==
    IF buffer # <<>> /\ Head(buffer).type = "Lagged" THEN Head(buffer).missed ELSE 0
Unread(buffer) ==
    IF buffer # <<>> /\ Head(buffer).type = "Lagged" THEN Tail(buffer) ELSE buffer

\* sender.send as one receiver sees it: the channel retains Capacity events,
\* and an event sent when the receiver has that many to read overwrites the
\* oldest of them.
Retain(buffer, message) ==
    IF Len(Unread(buffer)) < Capacity
    THEN Append(buffer, message)
    ELSE <<Lagged(Missed(buffer) + 1)>> \o Append(Tail(Unread(buffer)), message)

\* A faulty variant of broadcast_to_session, used to show what the property
\* about the order of events detects: the event overtakes those that the
\* receivers have not read yet.
broadcast_overtaking(session_id, message) ==
    [c \in Conns |->
        IF session_id \in session_broadcasts /\ c \in Subscribers(session_id)
        THEN <<message>> \o queue[c]
        ELSE queue[c]]

\* broadcast_to_session: the receivers' buffers after the send.  Without a
\* channel, or without receivers, the event is dropped.
broadcast_to_session(session_id, message) ==
    [c \in Conns |->
        IF session_id \in session_broadcasts /\ c \in Subscribers(session_id)
        THEN Retain(queue[c], message)
        ELSE queue[c]]

(***************************************************************************)
(* Connection state.                                                       *)
(***************************************************************************)
\* A faulty variant of ConnectionState::default, used to show what the
\* property about a fresh connection detects: the state starts authenticated.
PresetConnectionState ==
    [user |-> Some(1), session_id |-> None, participant_id |-> None,
     last_heartbeat |-> now, authenticated |-> TRUE]

\* ConnectionState::default
DefaultConnectionState ==
    [user |-> None, session_id |-> None, participant_id |-> None,
     last_heartbeat |-> now, authenticated |-> FALSE]

NoLocal == [handler |-> "none"]

InitWith(budget) ==
    /\ now = 0
    /\ sessions = InitialSessions
    /\ participants = <<>>
    /\ operations = <<>>
    /\ messages = <<>>
    /\ connections = <<>>
    /\ session_broadcasts = {}
    /\ broadcast_receiver = [c \in Conns |-> None]
    /\ queue = [c \in Conns |-> <<>>]
    /\ pc = [c \in Conns |-> "new"]
    /\ local = [c \in Conns |-> NoLocal]
    /\ sock = [c \in Conns |-> "none"]
    /\ wire = None
    /\ frames = budget
    /\ published = <<>>

Init == InitWith(MaxFrames)

store == <<sessions, participants, operations, messages>>
hub == <<session_broadcasts, broadcast_receiver, queue, published>>

\* The wall clock advances.
Tick ==
    /\ now < MaxClock
    /\ now' = now + 1
    /\ UNCHANGED <<store, hub, connections, pc, local, sock, wire, frames>>

(***************************************************************************)
(* Connection Handler: accept and the inbound branch of the select loop.   *)
(***************************************************************************)
\* register_connection, then the loop is entered with no broadcast receiver.
Accept(c) ==
    /\ pc[c] = "new"
    /\ connections' = (c :> DefaultConnectionState) @@ connections
    /\ sock' = [sock EXCEPT ![c] = "open"]
    /\ pc' = [pc EXCEPT ![c] = "select"]
    /\ UNCHANGED <<now, store, hub, local, wire, frames>>

\* A client frame is read from the socket.
CanRecv(c) ==
    /\ pc[c] = "select"
    /\ sock[c] = "open"
    /\ frames > 0

Consume(c) == frames' = frames - 1

\* A faulty variant of the user lookup, used to show what the property about
\* unauthenticated connections detects: a connection with no identity is
\* taken for user 1.
ConnUserAssumed(c) ==
    IF c \in DOMAIN connections /\ connections[c].user # None
    THEN connections[c].user
    ELSE Some(1)

\* The user id of the connection's state, as the handlers look it up.
ConnUser(c) ==
    IF c \in DOMAIN connections /\ connections[c].user # None
    THEN connections[c].user
    ELSE None

\* Writing a frame to the socket of c (sender.send): it fails on a socket
\* that is no longer open.
CanSend(c) == sock[c] = "open"
Send(c, frame) == wire' = Some([to |-> c, frame |-> frame])

\* The loop is left (break) with the error that ended it:
\* unregister_connection follows.
Break(c, error) ==
    /\ pc' = [pc EXCEPT ![c] = "cleanup"]
    /\ local' = [local EXCEPT ![c] = [handler |-> "break", error |-> error]]

\* A faulty variant of the subscription, used to show what the property about
\* the sessions of delivered events detects: the new receiver inherits what
\* the previous one had not read.
SubscribeKeeping(c, session_id) ==
    /\ session_broadcasts' = session_broadcasts \cup {session_id}
    /\ broadcast_receiver' = [broadcast_receiver EXCEPT ![c] = Some(session_id)]
    /\ queue' = queue

\* A subscription taken on the channel of session_id
\* (get_session_broadcast(session_id).await.subscribe()): the channel is
\* created on first use, and the task's previous receiver is dropped.
Subscribe(c, session_id) ==
    /\ session_broadcasts' = session_broadcasts \cup {session_id}
    /\ broadcast_receiver' = [broadcast_receiver EXCEPT ![c] = Some(session_id)]
    /\ queue' = [queue EXCEPT ![c] = <<>>]

\* WsMessage::Authenticate { token, session_id }
RecvAuthenticate(c, token, session_id) ==
    /\ CanRecv(c)
    /\ Consume(c)
    /\ LET claims == verify_token(token) IN
       IF claims # None
       THEN /\ connections' = [connections EXCEPT
                 ![c].user = claims,
                 ![c].authenticated = TRUE,
                 ![c].last_heartbeat = now]
            /\ IF session_id # None
               THEN Subscribe(c, Unwrap(session_id))
               ELSE UNCHANGED <<session_broadcasts, broadcast_receiver, queue>>
            /\ Send(c, [type |-> "AuthResult", success |-> TRUE, user |-> claims])
       ELSE /\ Send(c, [type |-> "AuthResult", success |-> FALSE, user |-> None])
            /\ UNCHANGED <<connections, session_broadcasts, broadcast_receiver, queue>>
    /\ UNCHANGED <<now, store, published, pc, local, sock>>

(***************************************************************************)
(* JoinSession: handle_session_join and the reply.                         *)
(***************************************************************************)
\* Rows of session_participants that joins in progress are going to insert.
PendingJoins == Cardinality({ c \in Conns : pc[c] = "join_insert" })

\* A faulty variant of JoinSession, used to show what the property about the
\* effect of a rejected join detects: the error of handle_session_join is
\* returned from the handler, which ends the connection's loop.
RecvJoinSessionClosing(c, session_id, role, password) ==
    /\ CanRecv(c)
    /\ Len(participants) + PendingJoins < MaxRows
    /\ Consume(c)
    /\ IF ConnUser(c) = None
       THEN Break(c, "Authentication")
       ELSE IF find_with_access(session_id, Unwrap(ConnUser(c)), password) # None
       THEN /\ pc' = [pc EXCEPT ![c] = "join_insert"]
            /\ local' = [local EXCEPT ![c] =
                 [handler |-> "join", session_id |-> session_id,
                  user_id |-> Unwrap(ConnUser(c)), role |-> role,
                  participant_id |-> None]]
       ELSE Break(c, "NotFound")
    /\ UNCHANGED <<now, store, hub, connections, sock, wire>>

\* A faulty variant of JoinSession, used to show what the properties about
\* refused joins detect: it answers a join refused for its password with an
\* error of its own, unlike the join to a session that does not exist.
RecvJoinSessionTelling(c, session_id, role, password) ==
    /\ CanRecv(c)
    /\ Len(participants) + PendingJoins < MaxRows
    /\ Consume(c)
    /\ IF ConnUser(c) = None
       THEN /\ Break(c, "Authentication")
            /\ UNCHANGED wire
       ELSE IF find_with_access(session_id, Unwrap(ConnUser(c)), password) # None
       THEN /\ pc' = [pc EXCEPT ![c] = "join_insert"]
            /\ local' = [local EXCEPT ![c] =
                 [handler |-> "join", session_id |-> session_id,
                  user_id |-> Unwrap(ConnUser(c)), role |-> role,
                  participant_id |-> None]]
            /\ UNCHANGED wire
       ELSE /\ Send(c, [type |-> "Error", code |-> "JOIN_FAILED",
                        error |-> IF find_by_id(session_id) # None
                                  THEN "Unauthorized" ELSE "NotFound",
                        id |-> session_id])
            /\ UNCHANGED <<pc, local>>
    /\ UNCHANGED <<now, store, hub, connections, sock>>

\* WsMessage::JoinSession { session_id, role, password }: the user is looked
\* up in the connection state (without one the error leaves the loop), then
\* handle_session_join checks the access.  A refused join is answered with an
\* Error frame whose message is that of AppError::NotFound.
RecvJoinSession(c, session_id, role, password) ==
    /\ CanRecv(c)
    /\ Len(participants) + PendingJoins < MaxRows
    /\ Consume(c)
    /\ IF ConnUser(c) = None
       THEN /\ Break(c, "Authentication")
            /\ UNCHANGED wire
       ELSE IF find_with_access(session_id, Unwrap(ConnUser(c)), password) # None
       THEN /\ pc' = [pc EXCEPT ![c] = "join_insert"]
            /\ local' = [local EXCEPT ![c] =
                 [handler |-> "join", session_id |-> session_id,
                  user_id |-> Unwrap(ConnUser(c)), role |-> role,
                  participant_id |-> None]]
            /\ UNCHANGED wire
       ELSE /\ Send(c, [type |-> "Error", code |-> "JOIN_FAILED",
                        error |-> "NotFound", id |-> session_id])
            /\ UNCHANGED <<pc, local>>
    /\ UNCHANGED <<now, store, hub, connections, sock>>

\* SessionParticipant::join: the row inserted for a join.
NewParticipant(session_id, user_id, role) ==
    [session_id |-> session_id, user_id |-> user_id, role |-> role,
     is_online |-> TRUE, cursor_position |-> None, selection |-> None]

\* handle_session_join: the participant row is inserted and the connection
\* state is pointed at it.
JoinInsert(c) ==
    /\ pc[c] = "join_insert"
    /\ LET l == local[c]
           id == Len(participants) + 1 IN
       /\ participants' = Append(participants,
                                 NewParticipant(l.session_id, l.user_id, l.role))
       /\ connections' = [connections EXCEPT
            ![c].session_id = Some(l.session_id),
            ![c].participant_id = Some(id),
            ![c].last_heartbeat = now]
       /\ local' = [local EXCEPT ![c].participant_id = Some(id)]
    /\ pc' = [pc EXCEPT ![c] = "join_broadcast"]
    /\ UNCHANGED <<now, sessions, operations, messages, hub, sock, wire, frames>>

\* handle_session_join: ParticipantUpdate is published to the session.
JoinBroadcast(c) ==
    /\ pc[c] = "join_broadcast"
    /\ LET l == local[c]
           event == [type |-> "ParticipantUpdate", session_id |-> l.session_id,
                     participant |-> Unwrap(l.participant_id),
                     user_id |-> l.user_id] IN
       /\ queue' = broadcast_to_session(l.session_id, event)
       /\ published' = Append(published, event)
    /\ pc' = [pc EXCEPT ![c] = "join_reply"]
    /\ UNCHANGED <<now, store, session_broadcasts, broadcast_receiver,
                   connections, local, sock, wire, frames>>

\* The Ok arm of JoinSession: SessionJoined is written, then the task
\* subscribes to the channel of the session.
JoinReply(c) ==
    /\ pc[c] = "join_reply"
    /\ LET l == local[c] IN
       IF CanSend(c)
       THEN /\ Send(c, [type |-> "SessionJoined", session_id |-> l.session_id,
                        participants |-> get_active_participants(l.session_id)])
            /\ Subscribe(c, l.session_id)
            /\ pc' = [pc EXCEPT ![c] = "select"]
            /\ local' = [local EXCEPT ![c] = NoLocal]
       ELSE /\ Break(c, "Server")
            /\ UNCHANGED <<wire, session_broadcasts, broadcast_receiver, queue>>
    /\ UNCHANGED <<now, store, published, connections, sock, frames>>

(***************************************************************************)
(* LeaveSession and unregister: handle_session_leave.                      *)
(***************************************************************************)
\* SessionParticipant::leave: UPDATE ... SET is_online = false WHERE id = $1
leave(participant_id) ==
    [participants EXCEPT ![participant_id].is_online = FALSE]

\* WsMessage::LeaveSession: the session and participant ids are read from
\* the connection state; with both present handle_session_leave is called:
\* the participant row is selected by id and marked offline.
RecvLeaveSession(c) ==
    /\ CanRecv(c)
    /\ Consume(c)
    /\ LET state == connections[c] IN
       IF state.session_id # None /\ state.participant_id # None
       THEN /\ participants' = leave(Unwrap(state.participant_id))
            /\ pc' = [pc EXCEPT ![c] = "leave_broadcast"]
            /\ local' = [local EXCEPT ![c] =
                 [handler |-> "leave", session_id |-> Unwrap(state.session_id),
                  participant_id |-> Unwrap(state.participant_id),
                  ret |-> "select"]]
       ELSE UNCHANGED <<participants, pc, local>>
    /\ UNCHANGED <<now, sessions, operations, messages, hub, connections, sock, wire>>

\* handle_session_leave called by unregister_connection: the participant row
\* is selected by id and marked offline.
LeaveUpdate(c) ==
    /\ pc[c] = "leave_update"
    /\ participants' = leave(local[c].participant_id)
    /\ pc' = [pc EXCEPT ![c] = "leave_broadcast"]
    /\ UNCHANGED <<now, sessions, operations, messages, hub, connections, local,
                   sock, wire, frames>>

\* handle_session_leave: ParticipantLeft is published to the session.  At the
\* end of unregister_connection the task returns and its receiver is dropped.
LeaveBroadcast(c) ==
    /\ pc[c] = "leave_broadcast"
    /\ LET l == local[c]
           event == [type |-> "ParticipantLeft", session_id |-> l.session_id,
                     user_id |-> participants[l.participant_id].user_id]
           delivered == broadcast_to_session(l.session_id, event) IN
       /\ published' = Append(published, event)
       /\ IF l.ret = "closed"
          THEN /\ broadcast_receiver' = [broadcast_receiver EXCEPT ![c] = None]
               /\ queue' = [delivered EXCEPT ![c] = <<>>]
          ELSE /\ queue' = delivered
               /\ UNCHANGED broadcast_receiver
       /\ pc' = [pc EXCEPT ![c] = l.ret]
    /\ local' = [local EXCEPT ![c] = NoLocal]
    /\ UNCHANGED <<now, store, session_broadcasts, connections, sock, wire, frames>>

\* A faulty variant of unregister_connection, used to show what the
\* properties about cleanup detect: it removes the registry entry and calls
\* no handle_session_leave.
UnregisterOnly(c) ==
    /\ pc[c] = "cleanup"
    /\ connections' = [d \in DOMAIN connections \ {c} |-> connections[d]]
    /\ pc' = [pc EXCEPT ![c] = "closed"]
    /\ broadcast_receiver' = [broadcast_receiver EXCEPT ![c] = None]
    /\ queue' = [queue EXCEPT ![c] = <<>>]
    /\ local' = [local EXCEPT ![c] = NoLocal]
    /\ UNCHANGED <<now, store, session_broadcasts, published, sock, wire, frames>>

\* unregister_connection: the entry is removed from the registry; if it held
\* a session and a participant id, handle_session_leave is called with them.
Unregister(c) ==
    /\ pc[c] = "cleanup"
    /\ connections' = [d \in DOMAIN connections \ {c} |-> connections[d]]
    /\ LET state == connections[c] IN
       IF state.session_id # None /\ state.participant_id # None
       THEN /\ pc' = [pc EXCEPT ![c] = "leave_update"]
            /\ local' = [local EXCEPT ![c] =
                 [handler |-> "leave", session_id |-> Unwrap(state.session_id),
                  participant_id |-> Unwrap(state.participant_id),
                  ret |-> "closed"]]
            /\ UNCHANGED <<broadcast_receiver, queue>>
       ELSE /\ pc' = [pc EXCEPT ![c] = "closed"]
            /\ broadcast_receiver' = [broadcast_receiver EXCEPT ![c] = None]
            /\ queue' = [queue EXCEPT ![c] = <<>>]
            /\ local' = [local EXCEPT ![c] = NoLocal]
    /\ UNCHANGED <<now, store, session_broadcasts, published, sock, wire, frames>>

(***************************************************************************)
(* Operation: handle_operation.                                            *)
(***************************************************************************)
PendingOps == Cardinality({ c \in Conns : pc[c] = "op_insert" })

\* WsMessage::Operation: the user is looked up in the connection state and
\* the parameters of the INSERT are bound, the timestamp being Utc::now().
RecvOperation(c, session_id, payload) ==
    /\ CanRecv(c)
    /\ Len(operations) + PendingOps < MaxOps
    /\ Consume(c)
    /\ IF ConnUser(c) = None
       THEN Break(c, "Authentication")
       ELSE /\ pc' = [pc EXCEPT ![c] = "op_insert"]
            /\ local' = [local EXCEPT ![c] =
                 [handler |-> "operation", session_id |-> session_id,
                  user_id |-> Unwrap(ConnUser(c)), payload |-> payload,
                  timestamp |-> now, operation_id |-> None]]
    /\ UNCHANGED <<now, store, hub, connections, sock, wire>>

\* SessionOperation::create: the row inserted (length is not a column of
\* the INSERT).
NewOperation(session_id, user_id, payload, timestamp) ==
    [session_id |-> session_id, user_id |-> user_id,
     operation_type |-> payload.operation_type, file_id |-> payload.file_id,
     position |-> payload.position, content |-> payload.content,
     length |-> None, timestamp |-> timestamp, applied |-> FALSE]

OpInsert(c) ==
    /\ pc[c] = "op_insert"
    /\ LET l == local[c] IN
       /\ operations' = Append(operations,
            NewOperation(l.session_id, l.user_id, l.payload, l.timestamp))
       /\ local' = [local EXCEPT ![c].operation_id = Some(Len(operations) + 1)]
    /\ pc' = [pc EXCEPT ![c] = "op_apply"]
    /\ UNCHANGED <<now, sessions, participants, messages, hub, connections,
                   sock, wire, frames>>

\* A faulty variant of SessionOperation::apply in handle_operation, used to
\* show what the properties about published operations detect: the handler
\* goes on to broadcast without the row being marked applied.
OpApplySkipped(c) ==
    /\ pc[c] = "op_apply"
    /\ pc' = [pc EXCEPT ![c] = "op_broadcast"]
    /\ UNCHANGED <<now, store, hub, connections, local, sock, wire, frames>>

\* SessionOperation::apply
OpApply(c) ==
    /\ pc[c] = "op_apply"
    /\ operations' = [operations EXCEPT ![Unwrap(local[c].operation_id)].applied = TRUE]
    /\ pc' = [pc EXCEPT ![c] = "op_broadcast"]
    /\ UNCHANGED <<now, sessions, participants, messages, hub, connections,
                   local, sock, wire, frames>>

\* A faulty variant of ServerOperation, used to show what the property about
\* the author of relayed events detects: the author is taken from the frame
\* (here the author a client would name, user 1) and not from the state of
\* the connection.
ServerOperationAsSent(l) ==
    [type |-> "ServerOperation", session_id |-> l.session_id,
     user_id |-> 1, operation_type |-> l.payload.operation_type,
     position |-> l.payload.position, content |-> l.payload.content,
     length |-> l.payload.length, file_id |-> l.payload.file_id,
     timestamp |-> operations[Unwrap(l.operation_id)].timestamp]

\* The ServerOperation event of an operation.
ServerOperation(l) ==
    [type |-> "ServerOperation", session_id |-> l.session_id,
     user_id |-> l.user_id, operation_type |-> l.payload.operation_type,
     position |-> l.payload.position, content |-> l.payload.content,
     length |-> l.payload.length, file_id |-> l.payload.file_id,
     timestamp |-> operations[Unwrap(l.operation_id)].timestamp]

\* A faulty variant of the publication in handle_operation, used to show what
\* the property about publishing to nobody detects: a send that reaches no
\* receiver is returned as an error, which ends the handler.
OpBroadcastStrict(c) ==
    /\ pc[c] = "op_broadcast"
    /\ LET event == ServerOperation(local[c]) IN
       IF local[c].session_id \in session_broadcasts
          /\ Subscribers(local[c].session_id) # {}
       THEN /\ queue' = broadcast_to_session(local[c].session_id, event)
            /\ published' = Append(published, event)
            /\ pc' = [pc EXCEPT ![c] = "select"]
            /\ local' = [local EXCEPT ![c] = NoLocal]
       ELSE /\ Break(c, "Broadcast")
            /\ UNCHANGED <<queue, published>>
    /\ UNCHANGED <<now, store, session_broadcasts, broadcast_receiver,
                   connections, sock, wire, frames>>

\* A faulty variant of the publication in handle_operation, used to show what
\* the property about publishing detects: a send that waits until every
\* receiver has room for the event, as a bounded queue would.
OpBroadcastWaiting(c) ==
    /\ pc[c] = "op_broadcast"
    /\ \A d \in Subscribers(local[c].session_id) : Len(Unread(queue[d])) < Capacity
    /\ LET event == ServerOperation(local[c]) IN
       /\ queue' = broadcast_to_session(local[c].session_id, event)
       /\ published' = Append(published, event)
    /\ pc' = [pc EXCEPT ![c] = "select"]
    /\ local' = [local EXCEPT ![c] = NoLocal]
    /\ UNCHANGED <<now, store, session_broadcasts, broadcast_receiver,
                   connections, sock, wire, frames>>

OpBroadcast(c) ==
    /\ pc[c] = "op_broadcast"
    /\ LET event == ServerOperation(local[c]) IN
       /\ queue' = broadcast_to_session(local[c].session_id, event)
       /\ published' = Append(published, event)
    /\ pc' = [pc EXCEPT ![c] = "select"]
    /\ local' = [local EXCEPT ![c] = NoLocal]
    /\ UNCHANGED <<now, store, session_broadcasts, broadcast_receiver,
                   connections, sock, wire, frames>>

(***************************************************************************)
(* ChatMessage: handle_chat_message.                                       *)
(***************************************************************************)
PendingMsgs == Cardinality({ c \in Conns : pc[c] = "chat_insert" })

\* WsMessage::ChatMessage: the user is looked up in the connection state and
\* the parameters of the INSERT are bound, created_at being Utc::now().
RecvChatMessage(c, session_id, content) ==
    /\ CanRecv(c)
    /\ Len(messages) + PendingMsgs < MaxMsgs
    /\ Consume(c)
    /\ IF ConnUser(c) = None
       THEN Break(c, "Authentication")
       ELSE /\ pc' = [pc EXCEPT ![c] = "chat_insert"]
            /\ local' = [local EXCEPT ![c] =
                 [handler |-> "chat", session_id |-> session_id,
                  user_id |-> Unwrap(ConnUser(c)), content |-> content,
                  created_at |-> now, message_id |-> None]]
    /\ UNCHANGED <<now, store, hub, connections, sock, wire>>

\* The row inserted into session_messages.
NewMessage(session_id, user_id, content, created_at) ==
    [session_id |-> session_id, user_id |-> user_id, message_type |-> "text",
     content |-> content, reply_to |-> None, created_at |-> created_at]

ChatInsert(c) ==
    /\ pc[c] = "chat_insert"
    /\ LET l == local[c] IN
       /\ messages' = Append(messages,
            NewMessage(l.session_id, l.user_id, l.content, l.created_at))
       /\ local' = [local EXCEPT ![c].message_id = Some(Len(messages) + 1)]
    /\ pc' = [pc EXCEPT ![c] = "chat_broadcast"]
    /\ UNCHANGED <<now, sessions, participants, operations, hub, connections,
                   sock, wire, frames>>

\* The ServerChatMessage event of a message.
ServerChatMessage(l) ==
    LET message == messages[Unwrap(l.message_id)] IN
    [type |-> "ServerChatMessage", session_id |-> l.session_id,
     id |-> Unwrap(l.message_id), user_id |-> l.user_id,
     content |-> message.content, message_type |-> "text",
     reply_to |-> message.reply_to, timestamp |-> message.created_at]

ChatBroadcast(c) ==
    /\ pc[c] = "chat_broadcast"
    /\ LET event == ServerChatMessage(local[c]) IN
       /\ queue' = broadcast_to_session(local[c].session_id, event)
       /\ published' = Append(published, event)
    /\ pc' = [pc EXCEPT ![c] = "select"]
    /\ local' = [local EXCEPT ![c] = NoLocal]
    /\ UNCHANGED <<now, store, session_broadcasts, broadcast_receiver,
                   connections, sock, wire, frames>>

(***************************************************************************)
(* The other inbound frames.                                               *)
(***************************************************************************)
\* WsMessage::Ping is answered with WsMessage::Pong.
RecvPing(c) ==
    /\ CanRecv(c)
    /\ Consume(c)
    /\ Send(c, [type |-> "Pong"])
    /\ UNCHANGED <<now, store, hub, connections, pc, local, sock>>

\* A decoded WsMessage with no arm of its own (Cursor and the server's own
\* tags): a warning is logged.
RecvUnhandled(c) ==
    /\ CanRecv(c)
    /\ Consume(c)
    /\ UNCHANGED <<now, store, hub, connections, pc, local, sock, wire>>

\* A text frame that does not decode as a WsMessage: the Validation error
\* leaves the loop.
RecvUndecodable(c) ==
    /\ CanRecv(c)
    /\ Consume(c)
    /\ Break(c, "Validation")
    /\ UNCHANGED <<now, store, hub, connections, sock, wire>>

\* Message::Pong: the heartbeat time of the connection is updated.
RecvPong(c) ==
    /\ CanRecv(c)
    /\ Consume(c)
    /\ connections' = [connections EXCEPT ![c].last_heartbeat = now]
    /\ UNCHANGED <<now, store, hub, pc, local, sock, wire>>

\* Message::Close: logged; the stream ends after it and writes to the socket
\* fail from then on.
RecvClose(c) ==
    /\ pc[c] = "select"
    /\ sock[c] = "open"
    /\ sock' = [sock EXCEPT ![c] = "closed"]
    /\ UNCHANGED <<now, store, hub, connections, pc, local, wire, frames>>

\* The stream yields an error (the transport broke): the loop is left.
RecvError(c) ==
    /\ pc[c] = "select"
    /\ sock[c] = "open"
    /\ Break(c, "WebSocket")
    /\ UNCHANGED <<now, store, hub, connections, sock, wire, frames>>

(***************************************************************************)
(* The broadcast and heartbeat branches of the select loop.                *)
(***************************************************************************)
\* The broadcast branch: receiver.recv().await.ok().  An event is written to
\* the socket; RecvError::Lagged is turned into None by ok(), and nothing is
\* written.
Deliver(c) ==
    /\ pc[c] = "select"
    /\ broadcast_receiver[c] # None
    /\ queue[c] # <<>>
    /\ queue' = [queue EXCEPT ![c] = Tail(@)]
    /\ IF Head(queue[c]).type = "Lagged"
       THEN UNCHANGED <<pc, local, wire>>
       ELSE IF CanSend(c)
       THEN /\ Send(c, Head(queue[c]))
            /\ UNCHANGED <<pc, local>>
       ELSE /\ Break(c, "Send")
            /\ UNCHANGED wire
    /\ UNCHANGED <<now, store, session_broadcasts, broadcast_receiver, published,
                   connections, sock, frames>>

\* The heartbeat interval elapsed: a ping is written to the socket.  Only a
\* failed write has an effect: it leaves the loop.
HeartbeatTick(c) ==
    /\ pc[c] = "select"
    /\ IF CanSend(c) THEN UNCHANGED <<pc, local>> ELSE Break(c, "Ping")
    /\ UNCHANGED <<now, store, hub, connections, sock, wire, frames>>

(***************************************************************************)
(* The steps of the tasks, grouped by the part of the handler they belong  *)
(* to, and the specifications.                                             *)
(***************************************************************************)
\* The connection is accepted, ends, or is cleaned up.
Lifecycle(c) ==
    \/ Accept(c)
    \/ RecvClose(c)
    \/ RecvError(c)
    \/ HeartbeatTick(c)
    \/ Unregister(c)
    \/ LeaveUpdate(c)
    \/ LeaveBroadcast(c)

\* The steps a handler takes after the frame was read, and the broadcast
\* branch of the loop.
Continue(c) ==
    \/ JoinInsert(c)
    \/ JoinBroadcast(c)
    \/ JoinReply(c)
    \/ Deliver(c)

ContinueRelay(c) ==
    \/ OpInsert(c)
    \/ OpApply(c)
    \/ OpBroadcast(c)

ContinueChat(c) ==
    \/ ChatInsert(c)
    \/ ChatBroadcast(c)

AnyAuthenticate(c) ==
    \E token \in Tokens, session_id \in {None} \cup {Some(s) : s \in Sessions} :
        RecvAuthenticate(c, token, session_id)

AnyJoinSession(c) ==
    \E session_id \in SessionIds, role \in Roles,
       password \in {None} \cup {Some(p) : p \in Passwords} :
        RecvJoinSession(c, session_id, role, password)

AnyOperation(c) ==
    \E session_id \in Sessions, payload \in OpPayloads :
        RecvOperation(c, session_id, payload)

AnyChatMessage(c) ==
    \E session_id \in Sessions, content \in ChatContents :
        RecvChatMessage(c, session_id, content)

\* Every frame a client may send, within one reading of the clock.
Next ==
    \E c \in Conns :
        \/ Lifecycle(c)
        \/ Continue(c)
        \/ ContinueRelay(c)
        \/ ContinueChat(c)
        \/ AnyAuthenticate(c)
        \/ AnyJoinSession(c)
        \/ RecvLeaveSession(c)
        \/ AnyOperation(c)
        \/ AnyChatMessage(c)
        \/ RecvPing(c)
        \/ RecvPong(c)
        \/ RecvUnhandled(c)
        \/ RecvUndecodable(c)

Spec == Init /\ [][Next]_vars

\* Clients that only authenticate, join and leave.
NextMembership ==
    \E c \in Conns :
        \/ Lifecycle(c)
        \/ Continue(c)
        \/ AnyAuthenticate(c)
        \/ AnyJoinSession(c)
        \/ RecvLeaveSession(c)

SpecMembership == InitWith(MaxJoinFrames) /\ [][NextMembership]_vars

\* Clients that authenticate with a valid token, join a session that has no
\* password and submit the insert operation, while the clock advances.
NextRelay ==
    \/ Tick
    \/ \E c \in Conns :
        \/ Accept(c)
        \/ Continue(c)
        \/ ContinueRelay(c)
        \/ \E token \in Users : RecvAuthenticate(c, token, None)
        \/ \E session_id \in Sessions, role \in Roles :
              RecvJoinSession(c, session_id, role, None)
        \/ \E session_id \in Sessions : RecvOperation(c, session_id, InsertHi)

SpecRelay == InitWith(MaxRelayFrames) /\ [][NextRelay]_vars

\* The steps the scheduler owes a task: whatever its handler, its broadcast
\* receiver or its heartbeat timer has ready.  What a client sends, and when
\* a connection breaks, is up to the client.
TaskStep(c) ==
    \/ Continue(c)
    \/ HeartbeatTick(c)
    \/ Unregister(c)
    \/ LeaveUpdate(c)
    \/ LeaveBroadcast(c)

SpecIdle == SpecMembership /\ \A c \in Conns : WF_vars(TaskStep(c))

\* The membership scenario with fewer frames, under the same scheduling.
SpecCleanup ==
    /\ InitWith(MaxCleanupFrames)
    /\ [][NextMembership]_vars
    /\ \A c \in Conns : WF_vars(TaskStep(c))

(***************************************************************************)
(* HTTP endpoints that write the tables the WebSocket server reads.        *)
(***************************************************************************)
\* POST /sessions/:id/join (join_session): SessionParticipant::join is called
\* with the path's session, the caller and the payload's role; the payload's
\* password is not read.
join_session(user_id, session_id, role, password) ==
    /\ Len(participants) + PendingJoins < MaxRows
    /\ participants' = Append(participants,
                              NewParticipant(session_id, user_id, role))
    /\ UNCHANGED <<now, sessions, operations, messages, hub, connections, pc,
                   local, sock, wire, frames>>

\* DELETE /sessions/:id (delete_session) by the session's creator:
\* CollaborationSession::end marks the session inactive.
delete_session(session_id) ==
    /\ find_by_id(session_id) # None
    /\ sessions[session_id].is_active
    /\ sessions' = [sessions EXCEPT ![session_id].is_active = FALSE]
    /\ UNCHANGED <<now, participants, operations, messages, hub, connections,
                   pc, local, sock, wire, frames>>

\* Clients that authenticate and join over the WebSocket, next to the HTTP
\* endpoints.
NextHttp ==
    \/ \E c \in Conns :
        \/ Accept(c)
        \/ Continue(c)
        \/ RecvError(c)
        \/ Unregister(c)
        \/ LeaveUpdate(c)
        \/ LeaveBroadcast(c)
        \/ \E token \in Users : RecvAuthenticate(c, token, None)
        \/ AnyJoinSession(c)
    \/ \E user_id \in Users, session_id \in Sessions, role \in Roles,
          password \in {None} \cup {Some(p) : p \in Passwords} :
          join_session(user_id, session_id, role, password)
    \/ \E session_id \in Sessions : delete_session(session_id)

SpecHttp == InitWith(MaxJoinFrames) /\ [][NextHttp]_vars

(***************************************************************************)
(* Session Store failures: a query returns Err(AppError::Database).        *)
(***************************************************************************)
\* The Error frame a handler arm sends for a failed command.
ErrorFrame(code, error) == [type |-> "Error", code |-> code, error |-> error]

\* An arm that matches on the handler's result: the error is written to the
\* socket and the loop goes on; if the write fails, the loop is left.
ReplyError(c, code) ==
    /\ IF CanSend(c)
       THEN /\ Send(c, ErrorFrame(code, "Database"))
            /\ pc' = [pc EXCEPT ![c] = "select"]
            /\ local' = [local EXCEPT ![c] = NoLocal]
       ELSE /\ Break(c, "Server")
            /\ UNCHANGED wire
    /\ UNCHANGED <<now, store, hub, connections, sock, frames>>

\* handle_session_join fails before a row is inserted (the access query or
\* the INSERT): the Err arm of JoinSession.
JoinInsertFail(c) ==
    /\ pc[c] = "join_insert"
    /\ ReplyError(c, "JOIN_FAILED")

\* handle_session_join fails at get_active_participants, after the INSERT
\* and the update of the connection state: the Err arm of JoinSession.
JoinBroadcastFail(c) ==
    /\ pc[c] = "join_broadcast"
    /\ ReplyError(c, "JOIN_FAILED")

\* The Ok arm of JoinSession fails at find_by_id or get_active_participants:
\* the error is returned with ? from handle_ws_message and the loop is left.
JoinReplyFail(c) ==
    /\ pc[c] = "join_reply"
    /\ Break(c, "Database")
    /\ UNCHANGED <<now, store, hub, connections, sock, wire, frames>>

\* WsMessage::LeaveSession, handle_session_leave failing at its SELECT or
\* its UPDATE: the error is returned with ? and the loop is left.
RecvLeaveSessionFail(c) ==
    /\ CanRecv(c)
    /\ connections[c].session_id # None
    /\ connections[c].participant_id # None
    /\ Consume(c)
    /\ Break(c, "Database")
    /\ UNCHANGED <<now, store, hub, connections, sock, wire>>

\* handle_operation fails at SessionOperation::create.
OpInsertFail(c) ==
    /\ pc[c] = "op_insert"
    /\ ReplyError(c, "OPERATION_FAILED")

\* handle_operation fails at SessionOperation::apply.
OpApplyFail(c) ==
    /\ pc[c] = "op_apply"
    /\ ReplyError(c, "OPERATION_FAILED")

\* handle_chat_message fails at its INSERT.
ChatInsertFail(c) ==
    /\ pc[c] = "chat_insert"
    /\ ReplyError(c, "MESSAGE_FAILED")

\* handle_session_leave fails when called by unregister_connection: the
\* error is logged and the task returns.
LeaveUpdateFail(c) ==
    /\ pc[c] = "leave_update"
    /\ pc' = [pc EXCEPT ![c] = "closed"]
    /\ broadcast_receiver' = [broadcast_receiver EXCEPT ![c] = None]
    /\ queue' = [queue EXCEPT ![c] = <<>>]
    /\ local' = [local EXCEPT ![c] = NoLocal]
    /\ UNCHANGED <<now, store, session_broadcasts, published, connections,
                   sock, wire, frames>>

StoreFailure(c) ==
    \/ JoinInsertFail(c)
    \/ JoinBroadcastFail(c)
    \/ JoinReplyFail(c)
    \/ RecvLeaveSessionFail(c)
    \/ OpInsertFail(c)
    \/ OpApplyFail(c)
    \/ ChatInsertFail(c)
    \/ LeaveUpdateFail(c)

\* Authenticated clients that join, leave, operate and chat, with a store
\* any query of which may fail.
NextFailure ==
    \/ Tick
    \/ \E c \in Conns :
        \/ Accept(c)
        \/ Continue(c)
        \/ ContinueRelay(c)
        \/ ContinueChat(c)
        \/ Unregister(c)
        \/ LeaveUpdate(c)
        \/ LeaveBroadcast(c)
        \/ StoreFailure(c)
        \/ \E token \in Users : RecvAuthenticate(c, token, None)
        \/ \E session_id \in Sessions, role \in Roles :
              RecvJoinSession(c, session_id, role, None)
        \/ RecvLeaveSession(c)
        \/ \E session_id \in Sessions : RecvOperation(c, session_id, InsertHi)
        \/ AnyChatMessage(c)

SpecFailure == InitWith(MaxFrames) /\ [][NextFailure]_vars

(***************************************************************************)
(* A receiver that falls behind: one session, whose events one connection  *)
(* publishes by joining, operating, chatting and leaving while the task of *)
(* another, subscribed, connection is slow to take the broadcast branch.   *)
(***************************************************************************)
NextLag ==
    \E c \in Conns :
        \/ Accept(c)
        \/ Continue(c)
        \/ ContinueRelay(c)
        \/ ContinueChat(c)
        \/ \E token \in Users, session_id \in {None, Some(1)} :
              RecvAuthenticate(c, token, session_id)
        \/ \E role \in Roles : RecvJoinSession(c, 1, role, None)
        \/ RecvOperation(c, 1, InsertHi)
        \/ \E content \in ChatContents : RecvChatMessage(c, 1, content)
        \/ RecvLeaveSession(c)
        \/ LeaveBroadcast(c)

SpecLag == InitWith(MaxLagFrames) /\ [][NextLag]_vars

(***************************************************************************)
(* The locks.  The registry (connections), the state of each connection    *)
(* and the channel map (session_broadcasts) are tokio RwLocks: waiters are *)
(* served in the order in which they arrived, readers share a lock and a   *)
(* writer has it alone.  Here the handlers are split at every lock they    *)
(* take: a handler is a list of sections, each taking its locks in order,  *)
(* acting, and dropping its guards.                                        *)
(***************************************************************************)
Registry == [lock |-> "connections", of |-> 0]
StateOf(c) == [lock |-> "state", of |-> c]
ChannelMap == [lock |-> "session_broadcasts", of |-> 0]
Read(lock) == [lock |-> lock, mode |-> "read"]
Write(lock) == [lock |-> lock, mode |-> "write"]

\* A section of a handler: the locks it takes, what it does once it has
\* them, and whether its guards are dropped when it is done.
Section(locks, effect, release, arg) ==
    [locks |-> locks, effect |-> effect, release |-> release, arg |-> arg]

\* A task that runs sections: the sections left, the guards it holds, the
\* next lock of the first section, its place among the waiters (0 before it
\* has asked for the lock) and where it goes when the sections are done.
Running(todo, ret) ==
    [handler |-> "critical", todo |-> todo, held |-> {}, next |-> 1,
     ticket |-> 0, ret |-> ret, user |-> None, participant_id |-> None,
     found |-> FALSE]

\* register_connection, and the session id that handle_websocket_connection
\* reads from the new state to set up its receiver.
RegisterSections(c) ==
    <<Section(<<Write(Registry)>>, "insert", TRUE, [c |-> c]),
      Section(<<Read(Registry), Read(StateOf(c))>>, "initial", TRUE, [c |-> c])>>

\* A faulty variant of get_session_broadcast, used to show what the property
\* about the channel of a session detects: the map is looked up under a read
\* lock that is dropped before the write lock is taken for the insertion.
GetSessionBroadcastUnlocked(session_id) ==
    <<Section(<<Read(ChannelMap)>>, "lookup", TRUE, [session_id |-> session_id]),
      Section(<<Write(ChannelMap)>>, "subscribe", TRUE, [session_id |-> session_id])>>

\* get_session_broadcast(session_id).await.subscribe(): the map is looked up
\* and, without an entry, a channel is created and inserted, all under the
\* write lock.
GetSessionBroadcastSections(session_id) ==
    <<Section(<<Write(ChannelMap)>>, "lookup", FALSE, [session_id |-> session_id]),
      Section(<<>>, "subscribe", TRUE, [session_id |-> session_id])>>

\* A faulty variant of the Authenticate arm, used to show what the property
\* about the locks detects: the guards of the state update are still held
\* when the channel map is locked.
AuthenticateNested(c, claims, session_id) ==
    <<Section(<<Read(Registry), Write(StateOf(c))>>, "authenticate", FALSE,
              [user |-> claims])>>
    \o (IF session_id # None
        THEN GetSessionBroadcastSections(Unwrap(session_id))
        ELSE <<>>)
    \o <<Section(<<>>, "reply", TRUE, [frame |-> "AuthResult"])>>

\* The Authenticate arm after a verified token: the state update, the
\* subscription if the frame names a session, and the AuthResult.
AuthenticateSections(c, claims, session_id) ==
    <<Section(<<Read(Registry), Write(StateOf(c))>>, "authenticate", TRUE,
              [user |-> claims])>>
    \o (IF session_id # None
        THEN GetSessionBroadcastSections(Unwrap(session_id))
        ELSE <<>>)
    \o <<Section(<<>>, "reply", TRUE, [frame |-> "AuthResult"])>>

\* Message::Pong
PongSections(c) ==
    <<Section(<<Read(Registry), Write(StateOf(c))>>, "pong", TRUE, [c |-> c])>>

\* The JoinSession arm: the user lookup; what follows it is decided by what
\* the lookup finds.
JoinSections(c, session_id, role) ==
    <<Section(<<Read(Registry), Read(StateOf(c))>>, "user", TRUE,
              [session_id |-> session_id, role |-> role])>>

\* handle_session_join after the user lookup, and the Ok arm of JoinSession.
JoinedSections(c, session_id, role) ==
    <<Section(<<>>, "join_row", TRUE, [session_id |-> session_id, role |-> role]),
      Section(<<Read(Registry), Write(StateOf(c))>>, "join_state", TRUE,
              [session_id |-> session_id]),
      Section(<<Read(ChannelMap)>>, "send_update", TRUE, [session_id |-> session_id]),
      Section(<<>>, "reply", TRUE, [frame |-> "SessionJoined", session_id |-> session_id])>>
    \o GetSessionBroadcastSections(session_id)

\* The LeaveSession arm: the session and participant ids are read from the
\* state; what follows is decided by what is read.
LeaveSessionSections(c) ==
    <<Section(<<Read(Registry), Read(StateOf(c))>>, "leave_refs", TRUE, [c |-> c])>>

\* unregister_connection: the entry is removed under the write lock of the
\* registry; what follows is decided by what was removed.
UnregisterSections(c) ==
    <<Section(<<Write(Registry)>>, "remove", FALSE, [c |-> c])>>

\* The guards task c holds.
Held(c) == IF pc[c] = "critical" THEN local[c].held ELSE {}

\* Task c is at a lock of its first section.
AtLock(c) ==
    /\ pc[c] = "critical"
    /\ local[c].next <= Len(Head(local[c].todo).locks)

Wanted(c) == Head(local[c].todo).locks[local[c].next]

\* Task c has asked for the lock it is at and has not got it yet.
Waiting(c) == AtLock(c) /\ local[c].ticket > 0

\* No other task holds a guard that excludes the request.
Compatible(c, request) ==
    \A d \in Conns : \A h \in Held(d) :
        h.lock = request.lock => h.mode = "read" /\ request.mode = "read"

\* No other task has waited longer for the same lock.
First(c) ==
    \A d \in Conns \ {c} :
        (Waiting(d) /\ Wanted(d).lock = Wanted(c).lock)
            => local[d].ticket > local[c].ticket

Granted(c) == Waiting(c) /\ First(c) /\ Compatible(c, Wanted(c))

LastTicket ==
    LET tickets == { local[d].ticket : d \in { e \in Conns : Waiting(e) } } IN
    IF tickets = {} THEN 0 ELSE CHOOSE t \in tickets : \A u \in tickets : u <= t

\* lock.read().await or lock.write().await is polled: the task joins the
\* waiters of the lock.
Arrive(c) ==
    /\ AtLock(c)
    /\ local[c].ticket = 0
    /\ local' = [local EXCEPT ![c].ticket = LastTicket + 1]
    /\ UNCHANGED <<now, store, hub, connections, pc, sock, wire, frames>>

\* The lock is granted.
Acquire(c) ==
    /\ Granted(c)
    /\ local' = [local EXCEPT ![c].held = @ \cup {Wanted(c)},
                              ![c].next = @ + 1,
                              ![c].ticket = 0]
    /\ UNCHANGED <<now, store, hub, connections, pc, sock, wire, frames>>

\* Task c holds the locks of its first section, whose effect is the given one.
Ready(c, effect) ==
    /\ pc[c] = "critical"
    /\ ~AtLock(c)
    /\ Head(local[c].todo).effect = effect

\* The first section of l is done and the given sections are to follow it.
Advance(c, l, following) ==
    LET todo == following \o Tail(l.todo)
        held == IF Head(l.todo).release THEN {} ELSE l.held IN
    IF todo = <<>>
    THEN /\ pc' = [pc EXCEPT ![c] = l.ret]
         /\ local' = [local EXCEPT ![c] = NoLocal]
    ELSE /\ pc' = pc
         /\ local' = [local EXCEPT ![c] =
              [l EXCEPT !.todo = todo, !.held = held, !.next = 1, !.ticket = 0]]

Arg(c) == Head(local[c].todo).arg

\* The reply of the Authenticate arm and of the Ok arm of JoinSession is
\* written to the socket.
WriteReply(c) ==
    /\ Ready(c, "reply")
    /\ IF Arg(c).frame = "AuthResult"
       THEN Send(c, [type |-> "AuthResult", success |-> TRUE,
                     user |-> connections[c].user])
       ELSE Send(c, [type |-> "SessionJoined", session_id |-> Arg(c).session_id,
                     participants |-> get_active_participants(Arg(c).session_id)])
    /\ Advance(c, local[c], <<>>)
    /\ UNCHANGED <<now, store, hub, connections, sock, frames>>

\* The connection is accepted: register_connection is called.
LockedAccept(c) ==
    /\ pc[c] = "new"
    /\ pc' = [pc EXCEPT ![c] = "critical"]
    /\ local' = [local EXCEPT ![c] = Running(RegisterSections(c), "select")]
    /\ sock' = [sock EXCEPT ![c] = "open"]
    /\ UNCHANGED <<now, store, hub, connections, wire, frames>>

\* register_connection: the default state is inserted.
InsertDefault(c) ==
    /\ Ready(c, "insert")
    /\ connections' = (c :> DefaultConnectionState) @@ connections
    /\ Advance(c, local[c], <<>>)
    /\ UNCHANGED <<now, store, hub, sock, wire, frames>>

\* handle_websocket_connection: the task subscribes if the state names a
\* session.
ReadInitialSession(c) ==
    /\ Ready(c, "initial")
    /\ IF connections[c].session_id # None
       THEN Advance(c, local[c],
                    GetSessionBroadcastSections(Unwrap(connections[c].session_id)))
       ELSE Advance(c, local[c], <<>>)
    /\ UNCHANGED <<now, store, hub, connections, sock, wire, frames>>

\* WsMessage::Authenticate: the token is verified before any lock is taken.
LockedAuthenticate(c, token, session_id) ==
    /\ CanRecv(c)
    /\ Consume(c)
    /\ LET claims == verify_token(token) IN
       IF claims # None
       THEN /\ pc' = [pc EXCEPT ![c] = "critical"]
            /\ local' = [local EXCEPT ![c] =
                 Running(AuthenticateSections(c, claims, session_id), "select")]
            /\ UNCHANGED wire
       ELSE /\ Send(c, [type |-> "AuthResult", success |-> FALSE, user |-> None])
            /\ UNCHANGED <<pc, local>>
    /\ UNCHANGED <<now, store, hub, connections, sock>>

\* The Authenticate arm: the state update.
UpdateAuthenticated(c) ==
    /\ Ready(c, "authenticate")
    /\ connections' = [connections EXCEPT
         ![c].user = Arg(c).user,
         ![c].authenticated = TRUE,
         ![c].last_heartbeat = now]
    /\ Advance(c, local[c], <<>>)
    /\ UNCHANGED <<now, store, hub, sock, wire, frames>>

\* Message::Pong
LockedPong(c) ==
    /\ CanRecv(c)
    /\ Consume(c)
    /\ pc' = [pc EXCEPT ![c] = "critical"]
    /\ local' = [local EXCEPT ![c] = Running(PongSections(c), "select")]
    /\ UNCHANGED <<now, store, hub, connections, sock, wire>>

\* Message::Pong: the heartbeat time is updated.
UpdateHeartbeat(c) ==
    /\ Ready(c, "pong")
    /\ connections' = [connections EXCEPT ![c].last_heartbeat = now]
    /\ Advance(c, local[c], <<>>)
    /\ UNCHANGED <<now, store, hub, sock, wire, frames>>

\* Rows of session_participants that joins in progress may still insert.
PendingLockedJoins ==
    Cardinality({ c \in Conns :
        /\ pc[c] = "critical"
        /\ Head(local[c].todo).effect \in {"user", "join_row"} })

\* WsMessage::JoinSession without a password.
LockedJoinSession(c, session_id, role) ==
    /\ CanRecv(c)
    /\ Len(participants) + PendingLockedJoins < MaxRows
    /\ Consume(c)
    /\ pc' = [pc EXCEPT ![c] = "critical"]
    /\ local' = [local EXCEPT ![c] =
         Running(JoinSections(c, session_id, role), "select")]
    /\ UNCHANGED <<now, store, hub, connections, sock, wire>>

\* The user lookup of the JoinSession arm, and find_with_access.
ReadUser(c) ==
    /\ Ready(c, "user")
    /\ IF ConnUser(c) = None
       THEN /\ Break(c, "Authentication")
            /\ UNCHANGED wire
       ELSE IF find_with_access(Arg(c).session_id, Unwrap(ConnUser(c)), None) # None
       THEN /\ Advance(c, [local[c] EXCEPT !.user = ConnUser(c)],
                       JoinedSections(c, Arg(c).session_id, Arg(c).role))
            /\ UNCHANGED wire
       ELSE /\ Send(c, [type |-> "Error", code |-> "JOIN_FAILED",
                        error |-> "NotFound", id |-> Arg(c).session_id])
            /\ Advance(c, local[c], <<>>)
    /\ UNCHANGED <<now, store, hub, connections, sock, frames>>

\* SessionParticipant::join
InsertParticipant(c) ==
    /\ Ready(c, "join_row")
    /\ participants' = Append(participants,
         NewParticipant(Arg(c).session_id, Unwrap(local[c].user), Arg(c).role))
    /\ Advance(c, [local[c] EXCEPT !.participant_id = Some(Len(participants) + 1)],
               <<>>)
    /\ UNCHANGED <<now, sessions, operations, messages, hub, connections,
                   sock, wire, frames>>

\* handle_session_join: the state update.
UpdateJoined(c) ==
    /\ Ready(c, "join_state")
    /\ connections' = [connections EXCEPT
         ![c].session_id = Some(Arg(c).session_id),
         ![c].participant_id = local[c].participant_id,
         ![c].last_heartbeat = now]
    /\ Advance(c, local[c], <<>>)
    /\ UNCHANGED <<now, store, hub, sock, wire, frames>>

\* handle_session_join: ParticipantUpdate is published.
SendUpdate(c) ==
    /\ Ready(c, "send_update")
    /\ LET event == [type |-> "ParticipantUpdate", session_id |-> Arg(c).session_id,
                     participant |-> Unwrap(local[c].participant_id),
                     user_id |-> Unwrap(local[c].user)] IN
       /\ queue' = broadcast_to_session(Arg(c).session_id, event)
       /\ published' = Append(published, event)
    /\ Advance(c, local[c], <<>>)
    /\ UNCHANGED <<now, store, session_broadcasts, broadcast_receiver,
                   connections, sock, wire, frames>>

\* get_session_broadcast: broadcasts.get(&session_id)
Lookup(c) ==
    /\ Ready(c, "lookup")
    /\ Advance(c, [local[c] EXCEPT !.found = Arg(c).session_id \in session_broadcasts],
               <<>>)
    /\ UNCHANGED <<now, store, hub, connections, sock, wire, frames>>

\* get_session_broadcast: the sender found is cloned, or a channel is created
\* and inserted; the task subscribes to the channel returned.
CreateOrClone(c) ==
    /\ Ready(c, "subscribe")
    /\ Subscribe(c, Arg(c).session_id)
    /\ Advance(c, local[c], <<>>)
    /\ UNCHANGED <<now, store, published, connections, sock, wire, frames>>

\* The loop of the connection has ended: unregister_connection is called.
LockedUnregister(c) ==
    /\ pc[c] = "cleanup"
    /\ pc' = [pc EXCEPT ![c] = "critical"]
    /\ local' = [local EXCEPT ![c] = Running(UnregisterSections(c), "closed")]
    /\ UNCHANGED <<now, store, hub, connections, sock, wire, frames>>

\* unregister_connection is called for a connection id that is not, or no
\* longer, registered.
UnregisterUnknown(c) ==
    /\ pc[c] \in {"new", "closed"}
    /\ frames > 0
    /\ Consume(c)
    /\ local' = [local EXCEPT ![c] = Running(UnregisterSections(c), pc[c])]
    /\ pc' = [pc EXCEPT ![c] = "critical"]
    /\ UNCHANGED <<now, store, hub, connections, sock, wire>>

\* handle_session_leave
LeaveSections(session_id, participant_id) ==
    <<Section(<<>>, "leave_row", TRUE, [participant_id |-> participant_id]),
      Section(<<Read(ChannelMap)>>, "send_left", TRUE,
              [session_id |-> session_id, participant_id |-> participant_id])>>

\* WsMessage::LeaveSession
LockedLeaveSession(c) ==
    /\ CanRecv(c)
    /\ Consume(c)
    /\ pc' = [pc EXCEPT ![c] = "critical"]
    /\ local' = [local EXCEPT ![c] = Running(LeaveSessionSections(c), "select")]
    /\ UNCHANGED <<now, store, hub, connections, sock, wire>>

\* The LeaveSession arm: with both ids in the state, handle_session_leave is
\* called.
ReadLeaveRefs(c) ==
    /\ Ready(c, "leave_refs")
    /\ LET state == connections[c] IN
       IF state.session_id # None /\ state.participant_id # None
       THEN Advance(c, local[c], LeaveSections(Unwrap(state.session_id),
                                                Unwrap(state.participant_id)))
       ELSE Advance(c, local[c], <<>>)
    /\ UNCHANGED <<now, store, hub, connections, sock, wire, frames>>

\* A faulty variant of connections.remove in unregister_connection, used to
\* show what the property about unknown ids detects: without an entry, a
\* default one is inserted.
RemoveOrInsert(c) ==
    /\ Ready(c, "remove")
    /\ IF c \in DOMAIN connections
       THEN /\ connections' = [d \in DOMAIN connections \ {c} |-> connections[d]]
            /\ Advance(c, local[c],
                       <<Section(<<Read(StateOf(c))>>, "refs", TRUE, connections[c])>>)
       ELSE /\ connections' = (c :> DefaultConnectionState) @@ connections
            /\ Advance(c, local[c], <<>>)
    /\ UNCHANGED <<now, store, hub, sock, wire, frames>>

\* unregister_connection: connections.remove(connection_id).  The state of a
\* removed entry is read next, under its own lock; without an entry the
\* function returns.
Remove(c) ==
    /\ Ready(c, "remove")
    /\ IF c \in DOMAIN connections
       THEN /\ connections' = [d \in DOMAIN connections \ {c} |-> connections[d]]
            /\ Advance(c, local[c],
                       <<Section(<<Read(StateOf(c))>>, "refs", TRUE, connections[c])>>)
       ELSE /\ UNCHANGED connections
            /\ Advance(c, local[c], <<>>)
    /\ UNCHANGED <<now, store, hub, sock, wire, frames>>

\* unregister_connection: the session and participant ids of the removed
\* state are read, and both guards are dropped.
ReadRefs(c) ==
    /\ Ready(c, "refs")
    /\ LET state == Arg(c) IN
       IF state.session_id # None /\ state.participant_id # None
       THEN Advance(c, local[c],
                    LeaveSections(Unwrap(state.session_id),
                                  Unwrap(state.participant_id))
                    \o <<Section(<<>>, "return", TRUE, [c |-> c])>>)
       ELSE Advance(c, local[c], <<Section(<<>>, "return", TRUE, [c |-> c])>>)
    /\ UNCHANGED <<now, store, hub, connections, sock, wire, frames>>

\* handle_session_leave: the participant row is marked offline.
MarkOffline(c) ==
    /\ Ready(c, "leave_row")
    /\ participants' = leave(Arg(c).participant_id)
    /\ Advance(c, local[c], <<>>)
    /\ UNCHANGED <<now, sessions, operations, messages, hub, connections,
                   sock, wire, frames>>

\* handle_session_leave: ParticipantLeft is published.
SendLeft(c) ==
    /\ Ready(c, "send_left")
    /\ LET event == [type |-> "ParticipantLeft", session_id |-> Arg(c).session_id,
                     user_id |-> participants[Arg(c).participant_id].user_id] IN
       /\ queue' = broadcast_to_session(Arg(c).session_id, event)
       /\ published' = Append(published, event)
    /\ Advance(c, local[c], <<>>)
    /\ UNCHANGED <<now, store, session_broadcasts, broadcast_receiver,
                   connections, sock, wire, frames>>

\* handle_websocket_connection returns: the task's receiver is dropped.
Return(c) ==
    /\ Ready(c, "return")
    /\ broadcast_receiver' = [broadcast_receiver EXCEPT ![c] = None]
    /\ queue' = [queue EXCEPT ![c] = <<>>]
    /\ Advance(c, local[c], <<>>)
    /\ UNCHANGED <<now, store, session_broadcasts, published, connections,
                   sock, wire, frames>>

\* The steps of a task that runs sections.
LockStep(c) ==
    \/ Arrive(c)
    \/ Acquire(c)
    \/ InsertDefault(c)
    \/ ReadInitialSession(c)
    \/ UpdateAuthenticated(c)
    \/ UpdateHeartbeat(c)
    \/ ReadUser(c)
    \/ InsertParticipant(c)
    \/ UpdateJoined(c)
    \/ SendUpdate(c)
    \/ Lookup(c)
    \/ CreateOrClone(c)
    \/ WriteReply(c)
    \/ Remove(c)
    \/ ReadRefs(c)
    \/ ReadLeaveRefs(c)
    \/ MarkOffline(c)
    \/ SendLeft(c)
    \/ Return(c)

NextLocks ==
    \E c \in Conns :
        \/ LockedAccept(c)
        \/ \E token \in Tokens, session_id \in {None, Some(1)} :
              LockedAuthenticate(c, token, session_id)
        \/ LockedPong(c)
        \/ \E role \in Roles : LockedJoinSession(c, 1, role)
        \/ LockedLeaveSession(c)
        \/ RecvError(c)
        \/ LockedUnregister(c)
        \/ UnregisterUnknown(c)
        \/ LockStep(c)
        \/ Deliver(c)

SpecLocks == InitWith(MaxLockFrames) /\ [][NextLocks]_vars

(***************************************************************************)
(* Properties.                                                             *)
(***************************************************************************)
Registered(c) == c \in DOMAIN connections

\* The users of the registered connections subscribed to a session's channel.
SubscribedUsers(session_id) ==
    { Unwrap(connections[c].user) :
        c \in { d \in Subscribers(session_id) :
                  Registered(d) /\ connections[d].user # None } }

\* C1: in every reachable state and for every session, the users whose
\* participant row is online in the Session Store are exactly the users of
\* the connections subscribed to the session's broadcast channel.
C1_OnlineEqualsSubscribed ==
    \A s \in Sessions : OnlineUsers(s) = SubscribedUsers(s)

\* C2: the operations persisted for a session have strictly increasing
\* timestamps in the order in which they were persisted.
C2_TimestampsStrictlyIncrease ==
    \A i, j \in 1..Len(operations) :
        (i < j /\ operations[i].session_id = operations[j].session_id)
            => operations[i].timestamp < operations[j].timestamp

\* C3: a subscriber never receives a ServerOperation with a later timestamp
\* before one with an earlier timestamp: in every receiver's buffer, which is
\* emptied from its head, the ServerOperation events are in timestamp order.
C3_ReceivedInTimestampOrder ==
    \A c \in Conns : \A i, j \in 1..Len(queue[c]) :
        (/\ i < j
         /\ queue[c][i].type = "ServerOperation"
         /\ queue[c][j].type = "ServerOperation")
            => queue[c][i].timestamp <= queue[c][j].timestamp

\* A session whose online participants have reached max_participants.
Full(session_id) ==
    Cardinality(get_active_participants(session_id))
        >= sessions[session_id].max_participants

\* C4: a join to a full session never succeeds, not even in part: no join of
\* a user who is not yet in the session that passed the access check, and is
\* about to insert its participant row, is a join to a session that is full.
C4_FullSessionRejectsJoin ==
    \A c \in Conns :
        (/\ pc[c] = "join_insert"
         /\ local[c].user_id \notin OnlineUsers(local[c].session_id))
            => ~Full(local[c].session_id)

\* The connection's participation was left: its participant row is offline.
AlreadyLeft(c) ==
    /\ Registered(c)
    /\ connections[c].participant_id # None
    /\ ~participants[Unwrap(connections[c].participant_id)].is_online

\* C5: leaving is idempotent: a LeaveSession read from a connection that
\* already left is a no-op (no row is written, no ParticipantLeft is going
\* to be published).
C5_SecondLeaveIsNoOp ==
    [][\A c \in Conns :
          (AlreadyLeft(c) /\ RecvLeaveSession(c))
              => (pc'[c] = "select" /\ participants' = participants)]_vars

\* A connection that joined a session, is still online in it, and from which
\* nothing is going to be read any more.
JoinedAndSilent(c) ==
    /\ Registered(c)
    /\ pc[c] = "select"
    /\ connections[c].participant_id # None
    /\ participants[Unwrap(connections[c].participant_id)].is_online
    /\ frames = 0

\* C6: a joined connection from which no activity is received is eventually
\* unregistered by the server, although its socket still accepts writes.
C6_SilentConnectionRemoved ==
    \A c \in Conns : JoinedAndSilent(c) ~> ~Registered(c)

\* The connection is registered, joined to the session and subscribed to it.
Joined(c, session_id) ==
    /\ Registered(c)
    /\ connections[c].session_id = Some(session_id)
    /\ connections[c].participant_id # None
    /\ broadcast_receiver[c] = Some(session_id)

\* C7: the ServerOperation published for an accepted operation of a joined
\* connection A while another connection B is joined to the same session
\* carries a timestamp greater than that of every operation persisted
\* earlier for the session.
C7_RelayedOperationIsNewest ==
    \A a \in Conns, b \in Conns :
        (/\ a # b
         /\ pc[a] = "op_broadcast"
         /\ Joined(a, local[a].session_id)
         /\ Joined(b, local[a].session_id)
         /\ ConnUser(a) # ConnUser(b))
            => \A j \in 1..(Unwrap(local[a].operation_id) - 1) :
                  operations[j].session_id = local[a].session_id
                      => operations[j].timestamp
                             < ServerOperation(local[a]).timestamp

\* C8: a JoinSession, Operation or ChatMessage from an unauthenticated
\* connection never ends the connection's loop: no connection is on its way
\* to being unregistered because of an authentication error.
C8_UnauthenticatedStaysConnected ==
    \A c \in Conns :
        pc[c] = "cleanup" => local[c].error # "Authentication"

\* The connection's user has no online participant row in the session.
NotParticipant(c, session_id) ==
    /\ ConnUser(c) # None
    /\ Unwrap(ConnUser(c)) \notin OnlineUsers(session_id)

\* C9: an Operation for a session of which the submitting user is not an
\* online participant at that moment is refused: its handler ends without
\* going on to persist and publish it.
C9_OperationRequiresParticipant ==
    [][\A c \in Conns, s \in Sessions :
          (/\ NotParticipant(c, s)
           /\ \E payload \in OpPayloads : RecvOperation(c, s, payload))
              => pc'[c] = "select"]_vars

\* C10: a ChatMessage for a session of which the sending user is not an
\* online participant at that moment is refused: its handler ends without
\* going on to persist and publish it.
C10_ChatRequiresParticipant ==
    [][\A c \in Conns, s \in Sessions :
          (/\ NotParticipant(c, s)
           /\ \E content \in ChatContents : RecvChatMessage(c, s, content))
              => pc'[c] = "select"]_vars

\* C11: in every reachable state no two participant rows of the same session
\* and the same user are online at once.
C11_OneOnlineRowPerUser ==
    \A i, j \in 1..Len(participants) :
        (/\ i # j
         /\ participants[i].session_id = participants[j].session_id
         /\ participants[i].user_id = participants[j].user_id)
            => ~(participants[i].is_online /\ participants[j].is_online)

\* The Error frame that answers a join to a session that does not exist.
JoinNotFound(session_id) ==
    [type |-> "Error", code |-> "JOIN_FAILED", error |-> "NotFound",
     id |-> session_id]

\* The session exists and is password-protected, and the join supplies no
\* password or one that does not match.
WrongPassword(session_id, password) ==
    /\ session_id \in Sessions
    /\ sessions[session_id].password_hash # None
    /\ \/ password = None
       \/ ~bcrypt_verify(Unwrap(password),
                         Unwrap(sessions[session_id].password_hash))

\* C12: the answer to a join with a wrong or missing password to a
\* password-protected session is, like the answer to a join to a session id
\* that does not exist, the Error frame of a session that was not found, and
\* the join changes nothing else a client could observe (handler position,
\* store, hub).
C12_WrongPasswordLooksNotFound ==
    [][\A c \in Conns, s \in SessionIds, role \in Roles,
          password \in {None} \cup { Some(p) : p \in Passwords } :
          (/\ ConnUser(c) # None
           /\ s \notin Sessions \/ WrongPassword(s, password)
           /\ RecvJoinSession(c, s, role, password))
              => /\ wire' = Some([to |-> c, frame |-> JoinNotFound(s)])
                 /\ pc' = pc
                 /\ UNCHANGED <<store, hub>>]_vars

\* A join to a password-protected session was refused for its password and
\* answered.
C12_WrongPasswordRefused ==
    \E c \in Conns, s \in Sessions :
        /\ sessions[s].password_hash # None
        /\ wire = Some([to |-> c, frame |-> JoinNotFound(s)])

\* The loop of the connection has ended, or its socket is closed and nothing
\* but the failing write of the next ping or event is left to it.
Ended(c) ==
    /\ Registered(c)
    /\ \/ pc[c] = "cleanup"
       \/ pc[c] = "select" /\ sock[c] = "closed"

\* The connection's state refers to participant row p.
Holds(c, p) ==
    /\ Registered(c)
    /\ connections[c].session_id # None
    /\ connections[c].participant_id = Some(p)

\* The number of ParticipantLeft events published so far for the session and
\* user of participant row p.
LeftCount(p) ==
    IF p \in DOMAIN participants
    THEN Cardinality({ k \in 1..Len(published) :
                    /\ published[k].type = "ParticipantLeft"
                    /\ published[k].session_id = participants[p].session_id
                    /\ published[k].user_id = participants[p].user_id })
    ELSE 0

Quiescent == \A c \in Conns : pc[c] \in {"new", "select", "closed"}

\* C14: in every quiescent state each online participant row is the current
\* participant of some registered connection.
C14_NoGhostParticipants ==
    Quiescent =>
        \A p \in 1..Len(participants) :
            participants[p].is_online => \E c \in Conns : Holds(c, p)

\* C15: when LeaveSession completes on a joined connection, its participant
\* row is offline, its session and participant reference is cleared and it
\* is no longer subscribed to the session's channel.
C15_LeaveClearsAndUnsubscribes ==
    [][\A c \in Conns :
          (LeaveBroadcast(c) /\ local[c].ret = "select")
              => /\ ~participants'[local[c].participant_id].is_online
                 /\ connections'[c].session_id = None
                 /\ connections'[c].participant_id = None
                 /\ broadcast_receiver'[c] = None]_vars

\* The ParticipantUpdate published for participant row p.
UpdateOf(p) ==
    [type |-> "ParticipantUpdate", session_id |-> participants[p].session_id,
     participant |-> p, user_id |-> participants[p].user_id]

\* C16: a join publishes the ParticipantUpdate of its new participant to
\* every connection subscribed to the session at that moment, and when the
\* JoinSession has succeeded (SessionJoined written) the joiner's participant
\* row is online and the connection is subscribed to the session's channel.
C16_JoinPublishesAndSubscribes ==
    [][\A c \in Conns :
          /\ JoinBroadcast(c) =>
                \A d \in Subscribers(local[c].session_id) :
                    queue'[d] = Append(queue[d],
                                       UpdateOf(Unwrap(local[c].participant_id)))
          /\ (JoinReply(c) /\ pc'[c] = "select") =>
                /\ participants'[Unwrap(local[c].participant_id)].is_online
                /\ participants'[Unwrap(local[c].participant_id)].session_id
                       = local[c].session_id
                /\ participants'[Unwrap(local[c].participant_id)].user_id
                       = Unwrap(ConnUser(c))
                /\ broadcast_receiver'[c] = Some(local[c].session_id)
                /\ \E k \in 1..Len(published) :
                      published[k] = UpdateOf(Unwrap(local[c].participant_id))]_vars

\* A join has succeeded while another connection was subscribed to the
\* session, and that connection's receiver holds the joiner's
\* ParticipantUpdate.
C16_JoinedNextToSubscriber ==
    \E c \in Conns, d \in Conns, s \in Sessions :
        /\ c # d
        /\ pc[c] = "select"
        /\ Joined(c, s)
        /\ participants[Unwrap(connections[c].participant_id)].is_online
        /\ broadcast_receiver[d] = Some(s)
        /\ \E k \in 1..Len(queue[d]) :
              queue[d][k] = UpdateOf(Unwrap(connections[c].participant_id))

\* C17: a join to a password-protected session that supplies no password or
\* one that does not match creates no participant row, over the WebSocket
\* and over the HTTP join endpoint alike.
C17_NoRowWithoutCredential ==
    [][\A s \in Sessions, role \in Roles,
          password \in {None} \cup { Some(p) : p \in Passwords } :
          WrongPassword(s, password) =>
              /\ \A c \in Conns :
                    RecvJoinSession(c, s, role, password)
                        => pc'[c] # "join_insert"
              /\ \A user_id \in Users :
                    join_session(user_id, s, role, password)
                        => participants' = participants]_vars

\* C18: the session for which a join inserts its online participant row is
\* active at the moment of the insertion.
C18_NoRowForInactiveSession ==
    [][\A c \in Conns :
          JoinInsert(c) => sessions[local[c].session_id].is_active]_vars

\* C19: a Session Store failure while handling a command of an authenticated
\* connection never ends the connection's loop: no connection is on its way
\* to being unregistered because of a Database error.
C19_StoreFailureKeepsConnection ==
    \A c \in Conns : pc[c] = "cleanup" => local[c].error # "Database"

\* The ServerOperation event of the persisted operation i, with the length
\* that the client sent.
EventOfRow(i, length) ==
    [type |-> "ServerOperation", session_id |-> operations[i].session_id,
     user_id |-> operations[i].user_id,
     operation_type |-> operations[i].operation_type,
     position |-> operations[i].position, content |-> operations[i].content,
     length |-> length, file_id |-> operations[i].file_id,
     timestamp |-> operations[i].timestamp]

\* C20: the ServerOperation events published are those of operations that
\* are persisted and marked applied, with the persisted timestamp: an event
\* is published no more often than there are applied rows it is the event
\* of, so that an operation whose insert or apply failed publishes nothing.
C20_PublishedOperationsAreApplied ==
    \A k \in 1..Len(published) :
        published[k].type = "ServerOperation" =>
            Cardinality({ j \in 1..Len(published) : published[j] = published[k] })
                <= Cardinality({ i \in 1..Len(operations) :
                       /\ operations[i].applied
                       /\ EventOfRow(i, published[k].length) = published[k] })

\* An operation has been published next to one whose apply failed: its row
\* is persisted and not applied, and its handler has returned.
C20_PublishedNextToFailed ==
    /\ \E k \in 1..Len(published) : published[k].type = "ServerOperation"
    /\ \E i \in 1..Len(operations) : ~operations[i].applied
    /\ \A c \in Conns : pc[c] \notin {"op_insert", "op_apply", "op_broadcast"}

\* C30: the step that registers a connection leaves its state zero-valued:
\* no identity, no session id, no participant id, and not authenticated.
C30_RegisteredStateIsDefault ==
    [][\A c \in Conns :
          Accept(c) =>
              /\ c \in DOMAIN connections'
              /\ connections'[c].user = None
              /\ connections'[c].session_id = None
              /\ connections'[c].participant_id = None
              /\ connections'[c].authenticated = FALSE]_vars

\* A connection has just been registered next to one that is authenticated
\* and joined.
C30_FreshNextToJoined ==
    \E c, d \in Conns :
        /\ Registered(c) /\ Registered(d)
        /\ connections[c] = DefaultConnectionState
        /\ connections[d].authenticated
        /\ connections[d].participant_id # None

\* C27: a JoinSession, Operation or ChatMessage frame of a connection that
\* has not authenticated changes neither the Session Store nor the hub (no
\* row, no subscription, no event): it ends the handler with the
\* Authentication error, and the cleanup that follows changes neither.
C27_UnauthenticatedFramesHaveNoEffect ==
    [][\A c \in Conns :
          /\ ( /\ Registered(c)
               /\ connections[c].user = None
               /\ (AnyJoinSession(c) \/ AnyOperation(c) \/ AnyChatMessage(c)) )
             => /\ UNCHANGED <<store, hub>>
                /\ pc'[c] = "cleanup"
                /\ local'[c].error = "Authentication"
          /\ ( /\ pc[c] = "cleanup"
               /\ local[c].error = "Authentication"
               /\ Unregister(c) )
             => /\ UNCHANGED <<store, hub>>
                /\ pc'[c] = "closed"]_vars

\* An unauthenticated connection has sent one of the three frames and its
\* handler has ended with the Authentication error, next to a connection
\* that is subscribed.
C27_UnauthenticatedFrameHandled ==
    \E c, d \in Conns :
        /\ pc[c] = "cleanup"
        /\ local[c].error = "Authentication"
        /\ broadcast_receiver[d] # None

\* C28 (as the code has it): a join to an existing session that is inactive,
\* or that is password-protected while the join's credential is missing or
\* does not match, is refused with the JOIN_FAILED Error frame of a session
\* that was not found, and changes neither the store nor the hub.
C28_RefusedJoinAnswersNotFound ==
    [][\A c \in Conns, s \in Sessions, role \in Roles,
          password \in {None} \cup { Some(p) : p \in Passwords } :
          (/\ ConnUser(c) # None
           /\ ~sessions[s].is_active \/ WrongPassword(s, password)
           /\ RecvJoinSession(c, s, role, password))
              => /\ wire' = Some([to |-> c, frame |-> JoinNotFound(s)])
                 /\ pc'[c] = "select"
                 /\ UNCHANGED <<store, hub>>]_vars

\* A join to a session that has been ended was refused and answered.
C28_InactiveJoinRefused ==
    \E c \in Conns, s \in Sessions :
        /\ ~sessions[s].is_active
        /\ ConnUser(c) # None
        /\ wire = Some([to |-> c, frame |-> JoinNotFound(s)])

\* C28 (as stated): the refusal of such a join is an Unauthorized error.
C28_RefusedJoinAnswersUnauthorized ==
    [][\A c \in Conns, s \in Sessions, role \in Roles,
          password \in {None} \cup { Some(p) : p \in Passwords } :
          (/\ ConnUser(c) # None
           /\ ~sessions[s].is_active \/ WrongPassword(s, password)
           /\ RecvJoinSession(c, s, role, password))
              => /\ wire' # None
                 /\ Unwrap(wire').to = c
                 /\ Unwrap(wire').frame.type = "Error"
                 /\ Unwrap(wire').frame.error = "Unauthorized"]_vars

\* C23: an operation of kind cursor or selection sent by a connection that is
\* joined to the session sets the cursor position on the connection's
\* participant row and appends nothing to the operation log.
C23_CursorTouchesRowNotLog ==
    [][\A c \in Conns :
          (/\ pc[c] = "op_insert"
           /\ local[c].payload.operation_type \in {"cursor", "selection"}
           /\ Joined(c, local[c].session_id)
           /\ OpInsert(c))
              => /\ operations' = operations
                 /\ participants'[Unwrap(connections[c].participant_id)].cursor_position
                        = local[c].payload.position]_vars

\* The session that the handler of c is about to publish to has no channel,
\* or a channel that no receiver is subscribed to.
NobodyListens(c) ==
    \/ local[c].session_id \notin session_broadcasts
    \/ Subscribers(local[c].session_id) = {}

\* C26: publishing to a session that has no channel or no subscriber drops
\* the event and is no error: no receiver's buffer changes, and the join,
\* leave, operation or chat that published goes on as after any publication
\* (the join to its reply, the others to the end of their handler).
C26_PublishToNobodySucceeds ==
    [][\A c \in Conns :
          /\ (pc[c] = "join_broadcast" /\ NobodyListens(c) /\ JoinBroadcast(c))
                => queue' = queue /\ pc'[c] = "join_reply"
          /\ (pc[c] = "leave_broadcast" /\ NobodyListens(c) /\ LeaveBroadcast(c))
                => queue' = queue /\ pc'[c] = local[c].ret
          /\ (pc[c] = "op_broadcast" /\ NobodyListens(c) /\ OpBroadcast(c))
                => queue' = queue /\ pc'[c] = "select"
          /\ (pc[c] = "chat_broadcast" /\ NobodyListens(c) /\ ChatBroadcast(c))
                => queue' = queue /\ pc'[c] = "select"]_vars

\* An operation has been published to a session that has no channel, and its
\* handler has returned to the loop.
C26_PublishedWithoutChannel ==
    \E c \in Conns, k \in 1..Len(published) :
        /\ published[k].type = "ServerOperation"
        /\ published[k].session_id \notin session_broadcasts
        /\ Registered(c)
        /\ ConnUser(c) = Some(published[k].user_id)
        /\ pc[c] = "select"

\* C22: a receiver that finds RecvError::Lagged in place of events that the
\* channel overwrote is told so: the step of the broadcast branch that takes
\* the Lagged result writes a frame to the connection's socket.
C22_LagIsSignalled ==
    [][\A c \in Conns :
          (/\ queue[c] # <<>>
           /\ Head(queue[c]).type = "Lagged"
           /\ Deliver(c))
              => /\ wire' # wire
                 /\ wire' # None
                 /\ Unwrap(wire').to = c]_vars

\* C21: a handler that has reached its publication can always take it,
\* whatever the receivers of the session have left unread and whether or not
\* their tasks run: the publication of a join, a leave, an operation and a
\* chat message is enabled in every state in which the handler is at it.
C21_PublishNeverWaits ==
    \A c \in Conns :
        /\ pc[c] = "join_broadcast" => ENABLED JoinBroadcast(c)
        /\ pc[c] = "leave_broadcast" => ENABLED LeaveBroadcast(c)
        /\ pc[c] = "op_broadcast" => ENABLED OpBroadcast(c)
        /\ pc[c] = "chat_broadcast" => ENABLED ChatBroadcast(c)

\* A handler is at its publication while a receiver of the session has as
\* many events unread as the channel retains, or has already missed some.
C21_PublisherMeetsFullReceiver ==
    \E c, d \in Conns :
        /\ c # d
        /\ pc[c] \in {"join_broadcast", "leave_broadcast", "op_broadcast",
                      "chat_broadcast"}
        /\ d \in Subscribers(local[c].session_id)
        /\ Len(Unread(queue[d])) = Capacity

\* Task d stands between task c and the lock c waits for: it holds a guard
\* that excludes c's request, or it has waited longer for the same lock.
Blocks(d, c) ==
    \/ \E h \in Held(d) :
          /\ h.lock = Wanted(c).lock
          /\ ~(h.mode = "read" /\ Wanted(c).mode = "read")
    \/ /\ d # c
       /\ Waiting(d)
       /\ Wanted(d).lock = Wanted(c).lock
       /\ local[d].ticket < local[c].ticket

\* C24: no task holds a guard of the connection registry and a guard of the
\* channel map of the sessions together, or waits for the one while holding
\* the other (the channels of all sessions are behind that one map lock:
\* there is no lock per session to hold two of); and there is no set of
\* tasks each of which waits for a lock behind another task of the set.
C24_LocksNeverNestNorDeadlock ==
    /\ \A c \in Conns :
          LET locks == { h.lock.lock : h \in Held(c) }
                           \cup (IF AtLock(c) THEN {Wanted(c).lock.lock} ELSE {}) IN
          ~({"connections", "session_broadcasts"} \subseteq locks)
    /\ \A tasks \in SUBSET Conns \ {{}} :
          ~(\A c \in tasks : Waiting(c) /\ \E d \in tasks : Blocks(d, c))

\* A task waits for the write lock of the registry, to unregister, behind a
\* task that holds the read lock of the registry.
C24_WriterWaitsForReader ==
    \E c, d \in Conns :
        /\ Waiting(c)
        /\ Wanted(c) = Write(Registry)
        /\ local[c].ret = "closed"
        /\ Read(Registry) \in Held(d)
        /\ Blocks(d, c)

\* C25: get_session_broadcast creates a channel only for a session that has
\* none at that moment, and no channel is ever removed or replaced: a call
\* that found no channel under the write lock still finds none when it
\* inserts its own, so that every call for a session returns the one channel
\* of that session.
C25_OneChannelPerSession ==
    [][/\ session_broadcasts \subseteq session_broadcasts'
       /\ \A c \in Conns :
             (Ready(c, "subscribe") /\ ~local[c].found /\ CreateOrClone(c))
                 => Arg(c).session_id \notin session_broadcasts]_vars

\* A call of get_session_broadcast has found no channel and is about to
\* create it while a concurrent call for the same session waits for the lock.
C25_ConcurrentFirstCalls ==
    \E c, d \in Conns :
        /\ Ready(c, "subscribe")
        /\ ~local[c].found
        /\ Waiting(d)
        /\ Wanted(d).lock = ChannelMap
        /\ Arg(d).session_id = Arg(c).session_id

\* C29: unregister_connection for an id that has no entry in the registry
\* returns at once: neither the registry, the store, the hub nor any socket
\* changes, no handle_session_leave follows and nothing is published.
C29_UnregisterUnknownIsNoOp ==
    [][\A c \in Conns :
          /\ UnregisterUnknown(c) => UNCHANGED <<store, hub, connections, sock, wire>>
          /\ (Ready(c, "remove") /\ c \notin DOMAIN connections /\ Remove(c))
                => /\ UNCHANGED <<store, hub, connections, sock, wire>>
                   /\ pc'[c] = local[c].ret
                   /\ local'[c] = NoLocal]_vars

\* unregister_connection is called again for a connection whose first
\* unregistration published its leave.
C29_SecondUnregister ==
    \E c \in Conns :
        /\ Ready(c, "remove")
        /\ local[c].ret = "closed"
        /\ c \notin DOMAIN connections
        /\ \E k \in 1..Len(published) : published[k].type = "ParticipantLeft"

\* C31: an event of a session is written to the socket of a connection only
\* if the connection has joined that session and has not left it: its state
\* refers to a participant row of the session that is online.
C31_ReceiversHaveJoined ==
    [][\A c \in Conns :
          (/\ queue[c] # <<>>
           /\ Head(queue[c]).type # "Lagged"
           /\ CanSend(c)
           /\ Deliver(c))
              => /\ Registered(c)
                 /\ connections[c].session_id = Some(Head(queue[c]).session_id)
                 /\ connections[c].participant_id # None
                 /\ participants[Unwrap(connections[c].participant_id)].is_online]_vars

\* The events published to a session so far, in the order of publication.
PublishedTo(session_id) ==
    SelectSeq(published, LAMBDA event : event.session_id = session_id)

\* The last n elements of a sequence.
Latest(seq, n) == SubSeq(seq, Len(seq) - n + 1, Len(seq))

\* What connection c has yet to read is, event for event and in order, the
\* latest part of what was published to the session it is subscribed to.
UnreadIsLatest(c) ==
    broadcast_receiver[c] # None =>
        LET all == PublishedTo(Unwrap(broadcast_receiver[c]))
            unread == Unread(queue[c]) IN
        /\ Len(unread) <= Len(all)
        /\ unread = Latest(all, Len(unread))

\* C32: after every step, what each subscribed connection has yet to read is
\* the latest part of what was published to its session, in the order of
\* publication, and the broadcast branch writes the oldest unread event to
\* the socket and removes just that one: every receiver is delivered the
\* events in the order of publication, none twice.
C32_DeliveredInPublishOrder ==
    [][/\ \A c \in Conns : UnreadIsLatest(c)'
       /\ \A c \in Conns :
            (/\ queue[c] # <<>>
             /\ Head(queue[c]).type # "Lagged"
             /\ CanSend(c)
             /\ Deliver(c))
                => /\ wire' = Some([to |-> c, frame |-> Head(queue[c])])
                   /\ queue'[c] = Tail(queue[c])]_vars

\* Two connections subscribed to the same session have the same two
\* different events to read.
C32_TwoReceiversTwoEvents ==
    \E c, d \in Conns :
        /\ c # d
        /\ broadcast_receiver[c] # None
        /\ broadcast_receiver[c] = broadcast_receiver[d]
        /\ Len(Unread(queue[c])) >= 2
        /\ Unread(queue[c]) = Unread(queue[d])
        /\ Unread(queue[c])[1] # Unread(queue[c])[2]

\* C33: an event that another connection publishes to a session while a
\* joining connection's participant row is already online in that session
\* reaches the joiner's receiver, so that it can be delivered to it.
C33_JoinerMissesNothing ==
    [][\A c, d \in Conns :
          (/\ c # d
           /\ pc[c] \in {"join_broadcast", "join_reply"}
           /\ pc[d] \in {"join_broadcast", "leave_broadcast"}
           /\ local[d].session_id = local[c].session_id
           /\ JoinBroadcast(d) \/ LeaveBroadcast(d))
              => /\ broadcast_receiver[c] = Some(local[c].session_id)
                 /\ queue'[c] # <<>>
                 /\ queue'[c][Len(queue'[c])] = published'[Len(published')]]_vars

\* C34: for each session and user no more ParticipantLeft events have been
\* published than participant rows were inserted: a join is followed by at
\* most one ParticipantLeft.
C34_OneLeftPerJoin ==
    \A s \in Sessions, u \in Users :
        Cardinality({ k \in 1..Len(published) :
                        /\ published[k].type = "ParticipantLeft"
                        /\ published[k].session_id = s
                        /\ published[k].user_id = u })
            <= Cardinality({ p \in 1..Len(participants) :
                        /\ participants[p].session_id = s
                        /\ participants[p].user_id = u })

\* Every event connection c has yet to read was published to the session
\* that c is subscribed to, and without a subscription there is none.
UnreadIsOfSubscription(c) ==
    /\ broadcast_receiver[c] = None => queue[c] = <<>>
    /\ \A k \in 1..Len(Unread(queue[c])) :
          Some(Unread(queue[c])[k].session_id) = broadcast_receiver[c]

\* C35: after every step the events a connection has yet to read are those
\* of the one session it is subscribed to; the event the broadcast branch
\* writes to the socket is of that session; and the subscription at the end
\* of a join replaces the previous one, with nothing of it left to read.
C35_OnlyEventsOfSubscription ==
    [][\A c \in Conns :
          /\ UnreadIsOfSubscription(c)'
          /\ (queue[c] # <<>> /\ Head(queue[c]).type # "Lagged" /\ Deliver(c))
                => Some(Head(queue[c]).session_id) = broadcast_receiver[c]
          /\ (pc[c] = "join_reply" /\ CanSend(c) /\ JoinReply(c))
                => /\ broadcast_receiver'[c] = Some(local[c].session_id)
                   /\ queue'[c] = <<>>]_vars

\* A connection whose user has a participant row in session 1 is subscribed
\* to session 2, while another connection has an event of session 1 to read.
C35_SubscribedElsewhere ==
    \E c, d \in Conns :
        /\ c # d
        /\ broadcast_receiver[c] = Some(2)
        /\ \E p \in 1..Len(participants) :
              /\ participants[p].session_id = 1
              /\ Some(participants[p].user_id) = ConnUser(c)
        /\ broadcast_receiver[d] = Some(1)
        /\ queue[d] # <<>>

\* C36: a JoinSession of an authenticated connection that is rejected (the
\* session does not exist, is inactive, or is password-protected and the
\* password is missing or wrong) inserts no row, leaves the connection's
\* state and its subscription as they were, publishes nothing, and leaves
\* the connection in its loop with its socket open.
C36_RejectedJoinChangesNothing ==
    [][\A c \in Conns, s \in SessionIds, role \in Roles,
          password \in {None} \cup { Some(p) : p \in Passwords } :
          (/\ ConnUser(c) # None
           /\ \/ s \notin Sessions
              \/ ~sessions[s].is_active
              \/ WrongPassword(s, password)
           /\ RecvJoinSession(c, s, role, password))
              => /\ UNCHANGED <<store, hub, connections, sock>>
                 /\ pc'[c] = "select"
                 /\ Registered(c)']_vars

\* A connection that is joined and subscribed to session 1 has been refused
\* a join to another session.
C36_RefusedWhileJoined ==
    \E c \in Conns, s \in SessionIds \ {1} :
        /\ Joined(c, 1)
        /\ pc[c] = "select"
        /\ sock[c] = "open"
        /\ wire = Some([to |-> c, frame |-> JoinNotFound(s)])

\* C37: the state of every registered connection has its session id set
\* exactly when its participant id is set, and the participant row it refers
\* to is a row of that session and of the user the connection is
\* authenticated as.
C37_StateRefersToOwnRow ==
    \A c \in Conns :
        Registered(c) =>
            /\ connections[c].session_id # None <=> connections[c].participant_id # None
            /\ connections[c].participant_id # None =>
                 LET row == participants[Unwrap(connections[c].participant_id)] IN
                 /\ Some(row.session_id) = connections[c].session_id
                 /\ Some(row.user_id) = connections[c].user

\* The identity and the authenticated flag of connection c, None and FALSE
\* for a connection that is not registered.
Identity(c) ==
    IF Registered(c) THEN <<connections[c].user, connections[c].authenticated>>
    ELSE <<None, FALSE>>

\* C38: after every step the authenticated flag of a registered connection
\* is true exactly when its identity is set; identity and flag are set only
\* by the step that handles an Authenticate frame whose token is one the
\* token service issued, to the user of that token; and an Authenticate with
\* any other token is answered with AuthResult success = false and changes
\* neither the connection's state nor its subscription.
C38_OnlyVerifiedTokensAuthenticate ==
    [][\A c \in Conns :
          /\ Registered(c)' =>
                (connections'[c].authenticated <=> connections'[c].user # None)
          /\ (Registered(c)' /\ connections'[c].user # None
                /\ Identity(c)' # Identity(c))
                => \E token \in Users,
                      session_id \in {None} \cup { Some(s) : s \in Sessions } :
                      /\ RecvAuthenticate(c, token, session_id)
                      /\ connections'[c].user = Some(token)
          /\ \A token \in Tokens \ Users,
                session_id \in {None} \cup { Some(s) : s \in Sessions } :
                RecvAuthenticate(c, token, session_id)
                    => /\ UNCHANGED <<connections, hub, store, pc>>
                       /\ wire' = Some([to |-> c,
                                        frame |-> [type |-> "AuthResult",
                                                   success |-> FALSE,
                                                   user |-> None]])]_vars

\* An authenticated, subscribed connection has been refused an Authenticate.
C38_RefusedWhileAuthenticated ==
    \E c \in Conns :
        /\ Registered(c)
        /\ connections[c].authenticated
        /\ broadcast_receiver[c] # None
        /\ wire = Some([to |-> c, frame |-> [type |-> "AuthResult",
                                             success |-> FALSE, user |-> None]])

\* The events relayed on behalf of a client.
Relayed == {"ServerOperation", "ServerChatMessage"}

\* C39: the step that publishes a ServerOperation or a ServerChatMessage for
\* connection c appends to the published events one whose user id is the
\* identity c is authenticated with; such events are published by no other
\* step; every ServerOperation or ServerChatMessage written to a socket is
\* one of the published events; and the step that handles a frame with no
\* arm of its own (Cursor and the server's own tags) publishes nothing and
\* changes neither the store, the hub nor any connection's state.
C39_AuthorIsAuthenticatedIdentity ==
    [][/\ \A c \in Conns :
            /\ (OpBroadcast(c) \/ ChatBroadcast(c))
                  => /\ Len(published') = Len(published) + 1
                     /\ published'[Len(published')].type \in Relayed
                     /\ Registered(c)
                     /\ Some(published'[Len(published')].user_id)
                            = connections[c].user
            /\ RecvUnhandled(c)
                  => UNCHANGED <<store, hub, connections, wire>>
            /\ (Deliver(c) /\ wire' # wire /\ wire' # None
                  /\ Unwrap(wire').frame.type \in Relayed)
                  => \E i \in 1..Len(published) :
                        published[i] = Unwrap(wire').frame
       /\ (Len(published') > Len(published)
            /\ published'[Len(published')].type \in Relayed)
            => \E c \in Conns : OpBroadcast(c) \/ ChatBroadcast(c)]_vars

\* A connection is handed an operation that another connection, authenticated
\* as another user, had relayed.
C39_RelayedToAnotherUser ==
    \E c \in Conns :
        /\ Registered(c)
        /\ wire # None
        /\ Unwrap(wire).to = c
        /\ Unwrap(wire).frame.type = "ServerOperation"
        /\ connections[c].user # None
        /\ connections[c].user # Some(Unwrap(wire).frame.user_id)

====
